---- MODULE Spec2Model ----
(***************************************************************************)
(* Model of the FireSculptureController runtime core:                      *)
(*   ProgramModules/InputManager.py        the usage-counted Input registry*)
(*   ProgramModules/Timers.py              the Timer and its TimerThread   *)
(*   ProgramModules/Adaptors.py            SerialAdaptor                   *)
(*   ProgramModules/DataChannelManager.py  AdaptorThread (mailbox + drain) *)
(* Each component has its own specification over its own variables; the    *)
(* other components' variables stay unchanged in it.                       *)
(***************************************************************************)
EXTENDS Integers, Sequences, FiniteSets, TLC

(***************************************************************************)
(* Bounds of the model.                                                    *)
(***************************************************************************)
\* createNewInput is called at most MaxInputs times (ids 0 .. MaxInputs-1)
MaxInputs == 2
\* consumers (userId) are 1 .. NUsers
NUsers == 2
\* named roles (userSubId) are 1 .. NRoles
NRoles == 1
\* registerUsage is not called on an instance that already has MaxUses records
MaxUses == 2
\* the clock runs from 0 to MaxTime
MaxTime == 3
\* a Timer's interval is one of 1 .. MaxInterval clock units
MaxInterval == 2
\* a Timer's callback is invoked at most MaxCalls times in a run
MaxCalls == 2
\* serial ports are named 1 .. NPorts; configData['ports'] lists some of them
NPorts == 2
\* producers calling AdaptorThread.transmitData, each with one payload
NProducers == 2
\* addPattern succeeds at most MaxPatterns times (pattern ids 0 .. MaxPatterns-1)
MaxPatterns == 2
\* the grid of a module: len(mapping) rows of len(mapping[0]) columns
GridRows == 1
GridCols == 3

(***************************************************************************)
(* InputManager.py                                                         *)
(***************************************************************************)
\* Python's False, the default of inputInstanceId and userSubId. False == 0
\* and hash(False) == hash(0) in Python, so an omitted argument and the
\* integer 0 are the same value to `not x`, to `==` and as a dict key.
False == 0

Users == 1 .. NUsers
SubIds == {False} \cup (1 .. NRoles)
InstanceIds == 0 .. (MaxInputs - 1)

VARIABLES
    nextInputInstanceId,  \* self.nextInputInstanceId
    inputInstances,       \* keys of self.inputInstances (id -> Input object inputObjs[id])
    inputInstanceUses,    \* self.inputInstanceUses: id -> list of [userId, userSubId]
    inputObjs,            \* the Input objects ever constructed: id -> [persistent, stopped]
    imCall                \* the last InputManager call: its arguments and whether it raised

imVars == <<nextInputInstanceId, inputInstances, inputInstanceUses, inputObjs, imCall>>

VARIABLES
    now,           \* the clock
    repeating,     \* Timer.repeating
    interval,      \* Timer.interval
    fireFunction,  \* Timer.fireFunction
    stopEvent,     \* Timer.stopEvent.isSet()
    waitEvent,     \* TimerThread.waitEvent.isSet(), of the Event the field refers to now
    timer,         \* TimerThread.timer, the timer.Timer object the field refers to now
    tpc,           \* where the TimerThread is in run()
    cpc,           \* where the calling context is in stop() / refresh()
    calls,         \* number of invocations of the callback so far
    calledAfterStop,  \* the lines of run() that invoked the callback after stop() had returned
    refreshDue,    \* t + interval of the last refresh() (called at t), until the next invocation; -1 otherwise
    earlyFire,     \* an invocation took place before the refreshDue then pending
    startDue,      \* the time of construction + the interval given to it; -1 before
    firstEarly,    \* the first invocation took place before startDue
    inCallback     \* number of invocations of the callback that have not returned

tmVars == <<now, repeating, interval, fireFunction, stopEvent, waitEvent, timer,
            tpc, cpc, calls, calledAfterStop, refreshDue, earlyFire,
            startDue, firstEarly, inCallback>>

VARIABLES
    openable,    \* the ports on which serial.Serial(port, ...) succeeds at present
    ports,       \* self.configData['ports']
    connection,  \* self.connection: 0 for False, or the link (Serial object) it refers to
    linkPort,    \* link -> the port it is open on, 0 when the link is not open
    held,        \* context -> the link a running call of it refers to (0: none)
    apc,         \* context -> where it is in the adaptor's or the worker's code
    portIndex,   \* context -> portIndex of its connect()
    ret,         \* context -> where its connect() returns to
    failLog,     \* ports logged 'failed to connect' by the connect() under way
    tx,          \* the current or last SerialAdaptor.transmitData call
    data,        \* AdaptorThread.data, a sequence of payloads
    handed,      \* all that was passed to Adaptor.transmitData, concatenated
    appended,    \* the payloads in the order their appends completed
    ppc,         \* producer -> where it is in AdaptorThread.transmitData
    ptmp,        \* producer -> the value of self.data it read
    wstop,       \* AdaptorThread.stopEvent.isSet()
    earlyLoad    \* the drain loop read self.data before every producer's append was complete

adVars == <<openable, ports, connection, linkPort, held, apc, portIndex, ret,
            failLog, tx, data, handed, appended, ppc, ptmp, wstop, earlyLoad>>

VARIABLES
    nextPatternInstanceId,  \* SculptureModuleBase.nextPatternInstanceId
    patterns,               \* self.patterns: id -> the state grid of the Pattern object
    patternRowSettings,     \* self.patternRowSettings: id -> row -> selected
    currentOutputState,     \* PooferModule.currentOutputState: row -> col -> state
    sent,                   \* the data last passed to a data channel's send
    smCall                  \* the last module call: whether it raised, whether it passed data on

smVars == <<nextPatternInstanceId, patterns, patternRowSettings, currentOutputState,
            sent, smCall>>

VARIABLES
    ipc,       \* context -> where it is in its InputManager call
    icall,     \* context -> the call: its operation and arguments
    ilocal,    \* context -> the locals of the call
    iresult,   \* context -> how its last call ended: "none", "ok" or "KeyError"
    returned   \* the ids returned by createNewInput, in the order of the returns

raceVars == <<ipc, icall, ilocal, iresult, returned>>

VARIABLES
    du,    \* the doUpdates call under way in a pattern's timer context: its locals
    ctl    \* the addPattern / removePattern call under way in the controller's context

mrVars == <<du, ctl>>

vars == <<imVars, tmVars, adVars, smVars, raceVars, mrVars>>

\* what the operations of one component leave alone
NotIM == <<tmVars, adVars, smVars, raceVars, mrVars>>
NotTimer == <<imVars, adVars, smVars, raceVars, mrVars>>
NotAdaptor == <<imVars, tmVars, smVars, raceVars, mrVars>>
NotModule == <<imVars, tmVars, adVars, raceVars, mrVars>>
NotRace == <<imCall, tmVars, adVars, smVars, mrVars>>
NotModuleRace == <<imVars, tmVars, adVars, raceVars>>

\* the usage records of instance i in the table `uses`
UsesOf(uses, i) == IF i \in DOMAIN uses THEN uses[i] ELSE <<>>

\* `not x` of Python for the values an id or a role can take
Not(x) == x = False

\* checkItem(l, userId, userSubId), l = [userId, userSubId]
checkItem(l, userId, userSubId) ==
    userId = l[1] /\ (Not(userSubId) \/ userSubId = l[2])

\* The registry as one value, threaded through the nested helper.
IMState == [inst |-> inputInstances, uses |-> inputInstanceUses,
            objs |-> inputObjs, raised |-> FALSE]

\* the list comprehension of unRegisterForInput
KeepOthers(list, userId, userSubId) ==
    SelectSeq(list, LAMBDA l : ~checkItem(l, userId, userSubId))

\* unRegisterForInput(userId, inputInstanceId, userSubId): a KeyError leaves
\* what was assigned before it and sets raised.
unRegisterForInput(st, userId, i, userSubId) ==
    IF i \notin DOMAIN st.uses
    THEN [st EXCEPT !.raised = TRUE]
    ELSE LET kept == KeepOthers(st.uses[i], userId, userSubId)
             uses2 == [st.uses EXCEPT ![i] = kept]
         IN  IF Len(kept) # 0
             THEN [st EXCEPT !.uses = uses2]
             ELSE IF i \notin st.inst
             THEN [st EXCEPT !.uses = uses2, !.raised = TRUE]
             ELSE IF st.objs[i].persistent
             THEN [st EXCEPT !.uses = uses2]
             ELSE [st EXCEPT !.uses = uses2,
                             !.objs = [st.objs EXCEPT ![i].stopped = TRUE],
                             !.inst = st.inst \ {i}]

\* Iteration order of `for inputInstanceId in self.inputInstanceUses`: a
\* CPython 2 dict of small non-negative ints is walked in ascending key order.
RECURSIVE KeyOrder(_)
KeyOrder(S) ==
    IF S = {} THEN <<>>
    ELSE LET m == CHOOSE x \in S : \A y \in S : x <= y
         IN  <<m>> \o KeyOrder(S \ {m})

\* the for loop of unRegisterUsage; an exception ends it
RECURSIVE unRegisterEach(_, _, _, _)
unRegisterEach(st, keys, userId, userSubId) ==
    IF keys = <<>> \/ st.raised THEN st
    ELSE unRegisterEach(unRegisterForInput(st, userId, Head(keys), userSubId),
                        Tail(keys), userId, userSubId)

\* InputManager.createNewInput(params): params names an Input class that
\* exists (classFound) or not; the Input is persistent or not.
createNewInput(classFound, persistent) ==
    /\ nextInputInstanceId < MaxInputs
    /\ nextInputInstanceId' = nextInputInstanceId + 1
    /\ IF classFound
       THEN /\ inputInstances' = inputInstances \cup {nextInputInstanceId}
            /\ inputObjs' = inputObjs @@
                   (nextInputInstanceId :> [persistent |-> persistent, stopped |-> FALSE])
       ELSE UNCHANGED <<inputInstances, inputObjs>>
    /\ imCall' = [op |-> "create", userId |-> 0, inputInstanceId |-> nextInputInstanceId,
                  userSubId |-> False, raised |-> ~classFound]
    /\ UNCHANGED <<inputInstanceUses, NotIM>>

\* InputManager.registerUsage(userId, inputInstanceId, userSubId)
registerUsage(userId, inputInstanceId, userSubId) ==
    LET uses1 == IF inputInstanceId \in DOMAIN inputInstanceUses
                 THEN inputInstanceUses
                 ELSE inputInstanceUses @@ (inputInstanceId :> <<>>)
    IN  /\ Len(uses1[inputInstanceId]) < MaxUses
        /\ inputInstanceUses' =
               [uses1 EXCEPT ![inputInstanceId] = Append(@, <<userId, userSubId>>)]
        /\ imCall' = [op |-> "register", userId |-> userId,
                      inputInstanceId |-> inputInstanceId, userSubId |-> userSubId,
                      raised |-> inputInstanceId \notin inputInstances]
        /\ UNCHANGED <<nextInputInstanceId, inputInstances, inputObjs, NotIM>>

\* InputManager.unRegisterUsage(userId, inputInstanceId, userSubId)
unRegisterUsage(userId, inputInstanceId, userSubId) ==
    LET st == IF Not(inputInstanceId)
              THEN unRegisterEach(IMState, KeyOrder(DOMAIN inputInstanceUses),
                                  userId, userSubId)
              ELSE unRegisterForInput(IMState, userId, inputInstanceId, userSubId)
    IN  /\ inputInstances' = st.inst
        /\ inputInstanceUses' = st.uses
        /\ inputObjs' = st.objs
        /\ imCall' = [op |-> "unregister", userId |-> userId,
                      inputInstanceId |-> inputInstanceId, userSubId |-> userSubId,
                      raised |-> st.raised]
        /\ UNCHANGED <<nextInputInstanceId, NotIM>>

\* what a failed dict lookup raises
KeyError == "KeyError"

\* InputManager.getInputObj(inputInstanceId): self.inputInstances[inputInstanceId]
getInputObj(inputInstanceId) ==
    IF inputInstanceId \in inputInstances THEN inputObjs[inputInstanceId] ELSE KeyError

IMInit ==
    /\ nextInputInstanceId = 0
    /\ inputInstances = {}
    /\ inputInstanceUses = <<>>
    /\ inputObjs = <<>>
    /\ imCall = [op |-> "init", userId |-> 0, inputInstanceId |-> 0,
                 userSubId |-> False, raised |-> FALSE]

(***************************************************************************)
(* InputManager.py, statement by statement: two contexts call              *)
(* createNewInput, registerUsage and unRegisterUsage on the same           *)
(* InputManager with no lock between them. `x += 1` on a field is a read   *)
(* and a store. Each context is one consumer; it registers and             *)
(* unregisters usages of instance ids other than 0, so that unRegisterUsage*)
(* takes the single-instance path; the role is omitted.                    *)
(***************************************************************************)
IMContexts == {"a", "b"}

\* the consumer (userId) that a context registers and unregisters for
UserOf(x) == IF x = "a" THEN 1 ELSE 2

\* `removed` is the number of records that an unRegisterUsage call filtered out
NoCall == [op |-> "none", userId |-> 0, inputInstanceId |-> 0, persistent |-> FALSE,
           removed |-> 0]
NoLocals == [newInputInstanceId |-> 0, tmp |-> 0, kept |-> <<>>]

RaceInit ==
    /\ ipc = [x \in IMContexts |-> "idle"]
    /\ icall = [x \in IMContexts |-> NoCall]
    /\ ilocal = [x \in IMContexts |-> NoLocals]
    /\ iresult = [x \in IMContexts |-> "none"]
    /\ returned = <<>>

\* the call of context x moves on to `label`
Goto(x, label) == ipc' = [ipc EXCEPT ![x] = label]

\* the call of context x ends with `result`
Finish(x, result) ==
    /\ ipc' = [ipc EXCEPT ![x] = "idle"]
    /\ iresult' = [iresult EXCEPT ![x] = result]
    /\ ilocal' = [ilocal EXCEPT ![x] = NoLocals]

\* createNewInput calls begun
CreatesBegun ==
    Len(returned) + Cardinality({x \in IMContexts : ipc[x] # "idle" /\ icall[x].op = "create"})

\* a context calls createNewInput(params), registerUsage(userId, id) or
\* unRegisterUsage(userId, id)
BeginCreate(x, persistent) ==
    /\ ipc[x] = "idle"
    /\ CreatesBegun < MaxInputs
    /\ icall' = [icall EXCEPT ![x] = [NoCall EXCEPT !.op = "create", !.persistent = persistent]]
    /\ iresult' = [iresult EXCEPT ![x] = "none"]
    /\ Goto(x, "c26")
    /\ UNCHANGED <<nextInputInstanceId, inputInstances, inputInstanceUses, inputObjs,
                   ilocal, returned, NotRace>>

BeginRegister(x, userId, inputInstanceId) ==
    /\ ipc[x] = "idle"
    /\ ~Not(inputInstanceId)
    /\ Len(UsesOf(inputInstanceUses, inputInstanceId)) < MaxUses
    /\ icall' = [icall EXCEPT ![x] = [NoCall EXCEPT !.op = "register", !.userId = userId,
                                                    !.inputInstanceId = inputInstanceId]]
    /\ iresult' = [iresult EXCEPT ![x] = "none"]
    /\ Goto(x, "r38")
    /\ UNCHANGED <<nextInputInstanceId, inputInstances, inputInstanceUses, inputObjs,
                   ilocal, returned, NotRace>>

BeginUnRegister(x, userId, inputInstanceId) ==
    /\ ipc[x] = "idle"
    /\ ~Not(inputInstanceId)
    /\ icall' = [icall EXCEPT ![x] = [NoCall EXCEPT !.op = "unregister", !.userId = userId,
                                                    !.inputInstanceId = inputInstanceId]]
    /\ iresult' = [iresult EXCEPT ![x] = "none"]
    /\ Goto(x, "u48r")
    /\ UNCHANGED <<nextInputInstanceId, inputInstances, inputInstanceUses, inputObjs,
                   ilocal, returned, NotRace>>

\* createNewInput, line 26: newInputInstanceId = self.nextInputInstanceId
C26(x) ==
    /\ ipc[x] = "c26"
    /\ ilocal' = [ilocal EXCEPT ![x].newInputInstanceId = nextInputInstanceId]
    /\ Goto(x, "c27r")
    /\ UNCHANGED <<nextInputInstanceId, inputInstances, inputInstanceUses, inputObjs,
                   icall, iresult, returned, NotRace>>

\* line 27: self.nextInputInstanceId += 1, the read
C27r(x) ==
    /\ ipc[x] = "c27r"
    /\ ilocal' = [ilocal EXCEPT ![x].tmp = nextInputInstanceId]
    /\ Goto(x, "c27w")
    /\ UNCHANGED <<nextInputInstanceId, inputInstances, inputInstanceUses, inputObjs,
                   icall, iresult, returned, NotRace>>

\* line 27: the store
C27w(x) ==
    /\ ipc[x] = "c27w"
    /\ nextInputInstanceId' = ilocal[x].tmp + 1
    /\ Goto(x, "c31")
    /\ UNCHANGED <<inputInstances, inputInstanceUses, inputObjs,
                   icall, ilocal, iresult, returned, NotRace>>

\* lines 28-34: the Input is constructed and stored under newInputInstanceId
C31(x) ==
    /\ ipc[x] = "c31"
    /\ inputInstances' = inputInstances \cup {ilocal[x].newInputInstanceId}
    /\ inputObjs' =
           [i \in DOMAIN inputObjs \cup {ilocal[x].newInputInstanceId} |->
               IF i = ilocal[x].newInputInstanceId
               THEN [persistent |-> icall[x].persistent, stopped |-> FALSE]
               ELSE inputObjs[i]]
    /\ Goto(x, "c35")
    /\ UNCHANGED <<nextInputInstanceId, inputInstanceUses,
                   icall, ilocal, iresult, returned, NotRace>>

\* line 35: return newInputInstanceId
C35(x) ==
    /\ ipc[x] = "c35"
    /\ returned' = Append(returned, ilocal[x].newInputInstanceId)
    /\ Finish(x, "ok")
    /\ UNCHANGED <<nextInputInstanceId, inputInstances, inputInstanceUses, inputObjs,
                   icall, NotRace>>

\* registerUsage, line 38: if not inputInstanceId in self.inputInstanceUses.keys()
R38(x) ==
    /\ ipc[x] = "r38"
    /\ Goto(x, IF icall[x].inputInstanceId \in DOMAIN inputInstanceUses THEN "r40" ELSE "r39")
    /\ UNCHANGED <<nextInputInstanceId, inputInstances, inputInstanceUses, inputObjs,
                   icall, ilocal, iresult, returned, NotRace>>

\* line 39: self.inputInstanceUses[inputInstanceId] = []
R39(x) ==
    /\ ipc[x] = "r39"
    /\ inputInstanceUses' =
           [i \in DOMAIN inputInstanceUses \cup {icall[x].inputInstanceId} |->
               IF i = icall[x].inputInstanceId THEN <<>> ELSE inputInstanceUses[i]]
    /\ Goto(x, "r40")
    /\ UNCHANGED <<nextInputInstanceId, inputInstances, inputObjs,
                   icall, ilocal, iresult, returned, NotRace>>

\* line 40: self.inputInstanceUses[inputInstanceId].append([userId, userSubId])
R40(x) ==
    /\ ipc[x] = "r40"
    /\ Len(inputInstanceUses[icall[x].inputInstanceId]) < MaxUses
    /\ inputInstanceUses' =
           [inputInstanceUses EXCEPT ![icall[x].inputInstanceId] =
               Append(@, <<icall[x].userId, False>>)]
    /\ Goto(x, "r41")
    /\ UNCHANGED <<nextInputInstanceId, inputInstances, inputObjs,
                   icall, ilocal, iresult, returned, NotRace>>

\* line 41: return self.getInputObj(inputInstanceId)
R41(x) ==
    /\ ipc[x] = "r41"
    /\ Finish(x, IF icall[x].inputInstanceId \in inputInstances THEN "ok" ELSE KeyError)
    /\ UNCHANGED <<nextInputInstanceId, inputInstances, inputInstanceUses, inputObjs,
                   icall, returned, NotRace>>

\* unRegisterForInput, line 48: the list comprehension reads the records
U48r(x) ==
    /\ ipc[x] = "u48r"
    /\ IF icall[x].inputInstanceId \in DOMAIN inputInstanceUses
       THEN LET list == inputInstanceUses[icall[x].inputInstanceId]
                kept == KeepOthers(list, icall[x].userId, False)
            IN  /\ ilocal' = [ilocal EXCEPT ![x].kept = kept]
                /\ icall' = [icall EXCEPT ![x].removed = Len(list) - Len(kept)]
                /\ Goto(x, "u48w")
                /\ UNCHANGED iresult
       ELSE Finish(x, KeyError) /\ UNCHANGED icall
    /\ UNCHANGED <<nextInputInstanceId, inputInstances, inputInstanceUses, inputObjs,
                   returned, NotRace>>

\* line 48: the slice assignment replaces the content of the list
U48w(x) ==
    /\ ipc[x] = "u48w"
    /\ inputInstanceUses' =
           [inputInstanceUses EXCEPT ![icall[x].inputInstanceId] = ilocal[x].kept]
    /\ Goto(x, "u49")
    /\ UNCHANGED <<nextInputInstanceId, inputInstances, inputObjs,
                   icall, ilocal, iresult, returned, NotRace>>

\* line 49: if len(...) == 0 and not self.inputInstances[id].isPersistant()
U49(x) ==
    /\ ipc[x] = "u49"
    /\ IF Len(inputInstanceUses[icall[x].inputInstanceId]) # 0
       THEN Finish(x, "ok")
       ELSE IF icall[x].inputInstanceId \notin inputInstances
       THEN Finish(x, KeyError)
       ELSE IF inputObjs[icall[x].inputInstanceId].persistent
       THEN Finish(x, "ok")
       ELSE Goto(x, "u50") /\ UNCHANGED <<iresult, ilocal>>
    /\ UNCHANGED <<nextInputInstanceId, inputInstances, inputInstanceUses, inputObjs,
                   icall, returned, NotRace>>

\* line 50: self.inputInstances[inputInstanceId].stop()
U50(x) ==
    /\ ipc[x] = "u50"
    /\ IF icall[x].inputInstanceId \in inputInstances
       THEN /\ inputObjs' = [inputObjs EXCEPT ![icall[x].inputInstanceId].stopped = TRUE]
            /\ Goto(x, "u51")
            /\ UNCHANGED <<iresult, ilocal>>
       ELSE Finish(x, KeyError) /\ UNCHANGED inputObjs
    /\ UNCHANGED <<nextInputInstanceId, inputInstances, inputInstanceUses,
                   icall, returned, NotRace>>

\* line 51: del self.inputInstances[inputInstanceId]
U51(x) ==
    /\ ipc[x] = "u51"
    /\ IF icall[x].inputInstanceId \in inputInstances
       THEN /\ inputInstances' = inputInstances \ {icall[x].inputInstanceId}
            /\ Finish(x, "ok")
       ELSE Finish(x, KeyError) /\ UNCHANGED inputInstances
    /\ UNCHANGED <<nextInputInstanceId, inputInstanceUses, inputObjs,
                   icall, returned, NotRace>>

IMStep(x) ==
    \/ (\E p \in BOOLEAN : BeginCreate(x, p))
    \/ (\E i \in InstanceIds : BeginRegister(x, UserOf(x), i))
    \/ (\E i \in InstanceIds : BeginUnRegister(x, UserOf(x), i))
    \/ C26(x) \/ C27r(x) \/ C27w(x) \/ C31(x) \/ C35(x)
    \/ R38(x) \/ R39(x) \/ R40(x) \/ R41(x)
    \/ U48r(x) \/ U48w(x) \/ U49(x) \/ U50(x) \/ U51(x)

NextIMRace == \E x \in IMContexts : IMStep(x)

(***************************************************************************)
(* Timers.py. The TimerThread and the context that calls stop(), refresh() *)
(* and changeInterval() run in parallel; one step is one statement.        *)
(* timer.Timer(ms, f) is the one-shot alarm of the imported `timer`        *)
(* module: started, it calls f once when ms have elapsed unless stopped.   *)
(***************************************************************************)
Intervals == 1 .. MaxInterval

\* timer.Timer(interval*1000, self.waitEvent.set): `live` says that the Event
\* whose set() it was given is still the one self.waitEvent refers to.
NewLibTimer(ms) == [ms |-> ms, running |-> FALSE, deadline |-> 0, live |-> TRUE]

\* timer.Timer.start()
LibStart(t) == [t EXCEPT !.running = TRUE, !.deadline = now + t.ms]

\* timer.Timer.stop()
LibStop(t) == [t EXCEPT !.running = FALSE, !.deadline = 0]

\* before any Timer is constructed
TimerInit ==
    /\ now = 0
    /\ repeating = FALSE
    /\ interval = 1
    /\ fireFunction = TRUE
    /\ stopEvent = FALSE
    /\ waitEvent = FALSE
    /\ timer = NewLibTimer(1)
    /\ tpc = "none"
    /\ cpc = "none"
    /\ calls = 0
    /\ calledAfterStop = {}
    /\ refreshDue = -1
    /\ earlyFire = FALSE
    /\ startDue = -1
    /\ firstEarly = FALSE
    /\ inCallback = 0

\* Timer.doFunction(), called from `line` of run(): the callback is entered
Invoke(line) ==
    /\ calls < MaxCalls
    /\ calls' = calls + 1
    /\ calledAfterStop' = IF cpc = "stopped" THEN calledAfterStop \cup {line}
                                             ELSE calledAfterStop
    /\ earlyFire' = (earlyFire \/ (refreshDue # -1 /\ now < refreshDue))
    /\ refreshDue' = -1
    /\ firstEarly' = (firstEarly \/ (calls = 0 /\ now < startDue))
    /\ inCallback' = inCallback + 1
    /\ UNCHANGED startDue

NoInvoke ==
    UNCHANGED <<calls, calledAfterStop, earlyFire, refreshDue, startDue, firstEarly,
                inCallback>>

\* Timer.__init__(repeating, interval, function): the fields, the
\* TimerThread with its Event and its timer.Timer, and thread.start()
TimerNew(rep, int) ==
    /\ tpc = "none"
    /\ repeating' = rep
    /\ interval' = int
    /\ fireFunction' = TRUE
    /\ stopEvent' = FALSE
    /\ waitEvent' = FALSE
    /\ timer' = NewLibTimer(int)
    /\ tpc' = "start"
    /\ cpc' = "idle"
    /\ startDue' = now + int
    /\ UNCHANGED <<calls, calledAfterStop, earlyFire, refreshDue, firstEarly, inCallback>>
    /\ UNCHANGED now
    /\ UNCHANGED NotTimer

\* run, line 12: self.timer.start()
RunStart ==
    /\ tpc = "start"
    /\ timer' = LibStart(timer)
    /\ tpc' = "first"
    /\ NoInvoke
    /\ UNCHANGED <<now, repeating, interval, fireFunction, stopEvent, waitEvent, cpc>>
    /\ UNCHANGED NotTimer

\* run, lines 13-14: if self.parent.repeating: self.parent.doFunction()
RunFirst ==
    /\ tpc = "first"
    /\ IF repeating THEN Invoke(14) /\ tpc' = "incall0" ELSE NoInvoke /\ tpc' = "loop"
    /\ UNCHANGED <<now, repeating, interval, fireFunction, stopEvent, waitEvent, timer, cpc>>
    /\ UNCHANGED NotTimer

\* the callback returns, or raises: nothing in run() catches it, and the
\* thread ends ("dead0" from the call of line 14, "dead" from that of line 19)
RunReturn ==
    /\ tpc \in {"incall0", "incall"}
    /\ \E raises \in BOOLEAN :
           tpc' = IF raises THEN (IF tpc = "incall0" THEN "dead0" ELSE "dead")
                  ELSE IF tpc = "incall0" THEN "loop" ELSE "resched"
    /\ inCallback' = inCallback - 1
    /\ UNCHANGED <<calls, calledAfterStop, earlyFire, refreshDue, startDue, firstEarly>>
    /\ UNCHANGED <<now, repeating, interval, fireFunction, stopEvent, waitEvent, timer, cpc>>
    /\ UNCHANGED NotTimer

\* run, line 15: while not self.parent.stopEvent.isSet()
RunLoop ==
    /\ tpc = "loop"
    /\ tpc' = IF stopEvent THEN "done" ELSE "wait"
    /\ NoInvoke
    /\ UNCHANGED <<now, repeating, interval, fireFunction, stopEvent, waitEvent, timer, cpc>>
    /\ UNCHANGED NotTimer

\* run, lines 16-17: while not self.waitEvent.isSet(): pass
RunWait ==
    /\ tpc = "wait"
    /\ waitEvent
    /\ tpc' = "check"
    /\ NoInvoke
    /\ UNCHANGED <<now, repeating, interval, fireFunction, stopEvent, waitEvent, timer, cpc>>
    /\ UNCHANGED NotTimer

\* run, line 18: if self.parent.fireFunction
RunCheck ==
    /\ tpc = "check"
    /\ tpc' = IF fireFunction THEN "call" ELSE "resched"
    /\ NoInvoke
    /\ UNCHANGED <<now, repeating, interval, fireFunction, stopEvent, waitEvent, timer, cpc>>
    /\ UNCHANGED NotTimer

\* run, line 19: self.parent.doFunction()
RunCall ==
    /\ tpc = "call"
    /\ Invoke(19)
    /\ tpc' = "incall"
    /\ UNCHANGED <<now, repeating, interval, fireFunction, stopEvent, waitEvent, timer, cpc>>
    /\ UNCHANGED NotTimer

\* run, line 20: if self.parent.repeating
RunResched ==
    /\ tpc = "resched"
    /\ tpc' = IF repeating THEN "newEvent" ELSE "loop"
    /\ NoInvoke
    /\ UNCHANGED <<now, repeating, interval, fireFunction, stopEvent, waitEvent, timer, cpc>>
    /\ UNCHANGED NotTimer

\* run, line 21: self.waitEvent = Event()
RunNewEvent ==
    /\ tpc = "newEvent"
    /\ waitEvent' = FALSE
    /\ timer' = [timer EXCEPT !.live = FALSE]
    /\ tpc' = "newTimer"
    /\ NoInvoke
    /\ UNCHANGED <<now, repeating, interval, fireFunction, stopEvent, cpc>>
    /\ UNCHANGED NotTimer

\* run, line 22: self.timer = timer.Timer(self.parent.interval*1000, self.waitEvent.set)
RunNewTimer ==
    /\ tpc = "newTimer"
    /\ timer' = NewLibTimer(interval)
    /\ tpc' = "startTimer"
    /\ NoInvoke
    /\ UNCHANGED <<now, repeating, interval, fireFunction, stopEvent, waitEvent, cpc>>
    /\ UNCHANGED NotTimer

\* run, line 23: self.timer.start()
RunStartTimer ==
    /\ tpc = "startTimer"
    /\ timer' = LibStart(timer)
    /\ tpc' = "loop"
    /\ NoInvoke
    /\ UNCHANGED <<now, repeating, interval, fireFunction, stopEvent, waitEvent, cpc>>
    /\ UNCHANGED NotTimer

\* the running timer.Timer reaches its deadline and calls the Event.set it holds
LibElapse ==
    /\ timer.running
    /\ now >= timer.deadline
    /\ timer' = LibStop(timer)
    /\ waitEvent' = (waitEvent \/ timer.live)
    /\ NoInvoke
    /\ UNCHANGED <<now, repeating, interval, fireFunction, stopEvent, tpc, cpc>>
    /\ UNCHANGED NotTimer

\* the clock advances
Tick ==
    /\ now < MaxTime
    /\ now' = now + 1
    /\ NoInvoke
    /\ UNCHANGED <<repeating, interval, fireFunction, stopEvent, waitEvent, timer, tpc, cpc>>
    /\ UNCHANGED NotTimer

\* the thread waits for a pending firing: it is in the loop of run() and the
\* timer it started has not elapsed
Armed == tpc \in {"loop", "wait"} /\ timer.running /\ timer.live /\ ~waitEvent

\* stop() and refresh() are called; line 38 / line 44: self.fireFunction = False
CallStop ==
    /\ cpc = "idle"
    /\ fireFunction' = FALSE
    /\ cpc' = "stop2"
    /\ NoInvoke
    /\ UNCHANGED <<now, repeating, interval, stopEvent, waitEvent, timer, tpc>>
    /\ UNCHANGED NotTimer

CallRefresh ==
    /\ cpc = "idle"
    /\ fireFunction' = FALSE
    /\ cpc' = "refresh2"
    /\ refreshDue' = IF Armed THEN now + interval ELSE -1
    /\ UNCHANGED <<calls, calledAfterStop, earlyFire, startDue, firstEarly, inCallback>>
    /\ UNCHANGED <<now, repeating, interval, stopEvent, waitEvent, timer, tpc>>
    /\ UNCHANGED NotTimer

\* line 39 / line 45: self.thread.timer.stop()
CallTimerStop ==
    /\ cpc \in {"stop2", "refresh2"}
    /\ timer' = LibStop(timer)
    /\ cpc' = IF cpc = "stop2" THEN "stop3" ELSE "refresh3"
    /\ NoInvoke
    /\ UNCHANGED <<now, repeating, interval, fireFunction, stopEvent, waitEvent, tpc>>
    /\ UNCHANGED NotTimer

\* line 40 / line 46: self.thread.waitEvent.set()
CallEventSet ==
    /\ cpc \in {"stop3", "refresh3"}
    /\ waitEvent' = TRUE
    /\ cpc' = IF cpc = "stop3" THEN "stop4" ELSE "refresh4"
    /\ NoInvoke
    /\ UNCHANGED <<now, repeating, interval, fireFunction, stopEvent, timer, tpc>>
    /\ UNCHANGED NotTimer

\* line 41: self.stopEvent.set(), and stop() returns
StopReturn ==
    /\ cpc = "stop4"
    /\ stopEvent' = TRUE
    /\ cpc' = "stopped"
    /\ NoInvoke
    /\ UNCHANGED <<now, repeating, interval, fireFunction, waitEvent, timer, tpc>>
    /\ UNCHANGED NotTimer

\* a refresh() that invoked the callback itself, in the calling context
RefreshReturnFiring ==
    /\ cpc = "refresh4"
    /\ fireFunction' = TRUE
    /\ cpc' = "idle"
    /\ Invoke(47)
    /\ UNCHANGED <<now, repeating, interval, stopEvent, waitEvent, timer, tpc>>
    /\ UNCHANGED NotTimer

\* line 47: self.fireFunction = True, and refresh() returns
RefreshReturn ==
    /\ cpc = "refresh4"
    /\ fireFunction' = TRUE
    /\ cpc' = "idle"
    /\ NoInvoke
    /\ UNCHANGED <<now, repeating, interval, stopEvent, waitEvent, timer, tpc>>
    /\ UNCHANGED NotTimer

\* Timer.changeInterval(interval)
changeInterval ==
    /\ cpc = "idle"
    /\ \E i \in Intervals : i # interval /\ interval' = i
    /\ NoInvoke
    /\ UNCHANGED <<now, repeating, fireFunction, stopEvent, waitEvent, timer, tpc, cpc>>
    /\ UNCHANGED NotTimer

TimerThreadStep ==
    \/ RunStart \/ RunFirst \/ RunReturn \/ RunLoop \/ RunWait \/ RunCheck
    \/ RunCall \/ RunResched \/ RunNewEvent \/ RunNewTimer \/ RunStartTimer

TimerCallerStep ==
    \/ (\E rep \in BOOLEAN, int \in Intervals : TimerNew(rep, int))
    \/ CallStop \/ CallRefresh \/ CallTimerStop \/ CallEventSet
    \/ StopReturn \/ RefreshReturn \/ changeInterval

NextTimer == TimerThreadStep \/ TimerCallerStep \/ LibElapse \/ Tick

(***************************************************************************)
(* Adaptors.py: SerialAdaptor. A context is a thread running the adaptor's *)
(* code: "c", the context that constructs and commands the adaptor, and    *)
(* "w", the AdaptorThread. One step is one statement, and an assignment of *)
(* a call's result is two: the call, then the store.                       *)
(* SerialAdaptor never calls close(): a link (a Serial object) is closed   *)
(* when the last reference to it goes, as CPython's reference counting and *)
(* Serial's destructor do.                                                 *)
(***************************************************************************)
Contexts == {"c", "w"}
PortNames == 1 .. NPorts
Producers == 1 .. NProducers

\* the values of configData['ports']: lists of distinct ports
PortLists ==
    {l \in UNION {[1 .. n -> PortNames] : n \in 0 .. NPorts} :
        \A i, j \in DOMAIN l : i # j => l[i] # l[j]}

\* a link per reference that can exist at once: self.connection and one per context
LinkIds == 1 .. (Cardinality(Contexts) + 1)

Referenced(conn, hld) == ({conn} \cup {hld[x] : x \in Contexts}) \ {0}

\* the links left open once the references are conn and hld
Sweep(lp, conn, hld) ==
    [l \in LinkIds |-> IF l \in Referenced(conn, hld) THEN lp[l] ELSE 0]

FreshLink == CHOOSE l \in LinkIds : linkPort[l] = 0 /\ \A m \in LinkIds : linkPort[m] = 0 => l <= m

OpenLinks == {l \in LinkIds : linkPort[l] # 0}

\* serial.Serial(port, ...) returns a link (TRUE) or raises (FALSE); a port
\* that a link is open on opens again or not, as the platform has it
OpenOutcomes(p) ==
    IF p \notin openable THEN {FALSE}
    ELSE IF \E l \in OpenLinks : linkPort[l] = p THEN {TRUE, FALSE}
    ELSE {TRUE}

NoTx == [startConn |-> FALSE, connects |-> 0, writes |-> <<>>, logged |-> FALSE,
         success |-> TRUE, returned |-> "none"]

AdaptorInit ==
    /\ openable = {}
    /\ ports = <<>>
    /\ connection = 0
    /\ linkPort = [l \in LinkIds |-> 0]
    /\ held = [x \in Contexts |-> 0]
    /\ apc = [x \in Contexts |-> IF x = "c" THEN "none" ELSE "off"]
    /\ portIndex = [x \in Contexts |-> 0]
    /\ ret = [x \in Contexts |-> "idle"]
    /\ failLog = <<>>
    /\ tx = NoTx
    /\ data = <<>>
    /\ handed = <<>>
    /\ appended = <<>>
    /\ ppc = [p \in Producers |-> "idle"]
    /\ ptmp = [p \in Producers |-> <<>>]
    /\ wstop = FALSE
    /\ earlyLoad = FALSE

mailVars == <<data, handed, appended, ppc, ptmp, wstop, earlyLoad>>

\* connect, line 29: (not self.connection) and portIndex < len(self.configData['ports'])
LoopContinues(conn, idx) == conn = 0 /\ idx < Len(ports)

\* mutant: the ports are tried last to first
PortAtReversed(idx) == ports[Len(ports) - idx]

\* connect, line 31: self.configData['ports'][portIndex]
PortAt(idx) == ports[idx + 1]

\* connect, lines 27-28: self.connection = False; portIndex = 0
CnReset(x) ==
    /\ apc[x] = "cn_reset"
    /\ connection' = 0
    /\ linkPort' = Sweep(linkPort, 0, held)
    /\ portIndex' = [portIndex EXCEPT ![x] = 0]
    /\ failLog' = <<>>
    /\ apc' = [apc EXCEPT ![x] = "cn_loop"]
    /\ UNCHANGED <<openable, ports, held, ret, tx, mailVars, NotAdaptor>>

\* connect, line 29: the while test
CnLoop(x) ==
    /\ apc[x] = "cn_loop"
    /\ apc' = [apc EXCEPT ![x] = IF LoopContinues(connection, portIndex[x])
                                 THEN "cn_open" ELSE "cn_done"]
    /\ UNCHANGED <<openable, ports, connection, linkPort, held, portIndex, ret,
                   failLog, tx, mailVars, NotAdaptor>>

\* connect, line 31: serial.Serial(...) returns a link, or raises and lines
\* 33-35 log the failure and step to the next port. When another context has
\* shortened configData['ports'] since the while test, ports[portIndex] raises
\* IndexError in the try and again in the except clause's log line, and that
\* one leaves connect() and its callers: the thread ends.
CnOpen(x) ==
    /\ apc[x] = "cn_open"
    /\ IF portIndex[x] >= Len(ports)
       THEN /\ apc' = [apc EXCEPT ![x] = "dead"]
            /\ UNCHANGED <<held, linkPort, failLog, portIndex>>
       ELSE \E ok \in OpenOutcomes(PortAt(portIndex[x])) :
           IF ok
           THEN /\ held' = [held EXCEPT ![x] = FreshLink]
                /\ linkPort' = [linkPort EXCEPT ![FreshLink] = PortAt(portIndex[x])]
                /\ apc' = [apc EXCEPT ![x] = "cn_store"]
                /\ UNCHANGED <<failLog, portIndex>>
           ELSE /\ failLog' = Append(failLog, PortAt(portIndex[x]))
                /\ portIndex' = [portIndex EXCEPT ![x] = @ + 1]
                /\ apc' = [apc EXCEPT ![x] = "cn_loop"]
                /\ UNCHANGED <<held, linkPort>>
    /\ UNCHANGED <<openable, ports, connection, ret, tx, mailVars, NotAdaptor>>

\* connect, line 31: self.connection = <the link>
CnStore(x) ==
    /\ apc[x] = "cn_store"
    /\ connection' = held[x]
    /\ held' = [held EXCEPT ![x] = 0]
    /\ linkPort' = Sweep(linkPort, held[x], held')
    /\ apc' = [apc EXCEPT ![x] = "cn_loop"]
    /\ UNCHANGED <<openable, ports, portIndex, ret, failLog, tx, mailVars, NotAdaptor>>

\* connect returns to its caller; its locals and its log go with the call
CnReturn(x) ==
    /\ apc[x] = "cn_done"
    /\ apc' = [apc EXCEPT ![x] = ret[x]]
    /\ ret' = [ret EXCEPT ![x] = "idle"]
    /\ portIndex' = [portIndex EXCEPT ![x] = 0]
    /\ failLog' = <<>>
    /\ UNCHANGED <<openable, ports, connection, linkPort, held, tx, mailVars, NotAdaptor>>

\* transmitData, line 13: success = True
TxBegin(x) ==
    /\ tx' = [NoTx EXCEPT !.startConn = (connection # 0)]
    /\ apc' = [apc EXCEPT ![x] = "tx_write1"]

\* where transmitData returns to
AfterTransmit(x) == IF x = "w" THEN "clear" ELSE "idle"

\* transmitData, lines 15 and 19: self.connection.write(data) is called; on
\* False it raises at once, and the except clause runs (line 17: connect();
\* line 21: the failure is logged)
TxWrite(x) ==
    /\ apc[x] \in {"tx_write1", "tx_write2"}
    /\ IF connection = 0
       THEN /\ tx' = [tx EXCEPT !.writes = Append(@, "nolink"),
                                !.connects = IF apc[x] = "tx_write1" THEN @ + 1 ELSE @,
                                !.logged = (apc[x] = "tx_write2")]
            /\ apc' = [apc EXCEPT ![x] = IF apc[x] = "tx_write1" THEN "cn_reset" ELSE "tx_ret"]
            /\ ret' = [ret EXCEPT ![x] = IF apc[x] = "tx_write1" THEN "tx_write2" ELSE @]
            /\ UNCHANGED held
       ELSE /\ held' = [held EXCEPT ![x] = connection]
            /\ apc' = [apc EXCEPT ![x] = IF apc[x] = "tx_write1" THEN "tx_inwrite1"
                                                                 ELSE "tx_inwrite2"]
            /\ UNCHANGED <<tx, ret>>
    /\ UNCHANGED <<openable, ports, connection, linkPort, portIndex, failLog,
                   mailVars, NotAdaptor>>

\* the write returns, or raises and the except clause runs
TxWriteEnd(x) ==
    /\ apc[x] \in {"tx_inwrite1", "tx_inwrite2"}
    /\ held' = [held EXCEPT ![x] = 0]
    /\ linkPort' = Sweep(linkPort, connection, held')
    /\ \E ok \in BOOLEAN :
           IF ok
           THEN /\ tx' = [tx EXCEPT !.writes = Append(@, "ok")]
                /\ apc' = [apc EXCEPT ![x] = "tx_ret"]
                /\ UNCHANGED ret
           ELSE /\ tx' = [tx EXCEPT !.writes = Append(@, "fail"),
                                    !.connects = IF apc[x] = "tx_inwrite1" THEN @ + 1 ELSE @,
                                    !.logged = (apc[x] = "tx_inwrite2")]
                /\ apc' = [apc EXCEPT ![x] = IF apc[x] = "tx_inwrite1" THEN "cn_reset"
                                                                     ELSE "tx_ret"]
                /\ ret' = [ret EXCEPT ![x] = IF apc[x] = "tx_inwrite1" THEN "tx_write2" ELSE @]
    /\ UNCHANGED <<openable, ports, connection, portIndex, failLog, mailVars, NotAdaptor>>

\* the value of `return success`
ReturnValue(success) == IF success THEN "True" ELSE "False"

\* transmitData, line 25: return success
TxReturn(x) ==
    /\ apc[x] = "tx_ret"
    /\ tx' = [tx EXCEPT !.returned = ReturnValue(tx.success)]
    /\ apc' = [apc EXCEPT ![x] = AfterTransmit(x)]
    /\ UNCHANGED <<openable, ports, connection, linkPort, held, portIndex, ret,
                   failLog, mailVars, NotAdaptor>>

\* SerialAdaptor.__init__(configData): line 10, and line 11 calls connect()
AdaptorNew(portList, openSet) ==
    /\ apc["c"] = "none"
    /\ ports' = portList
    /\ openable' = openSet
    /\ apc' = [apc EXCEPT !["c"] = "cn_reset"]
    /\ ret' = [ret EXCEPT !["c"] = "ctor_done"]
    /\ UNCHANGED <<connection, linkPort, held, portIndex, failLog, tx, mailVars, NotAdaptor>>

\* the constructor returns; the adaptor is used from this one context
CtorReturn ==
    /\ apc["c"] = "ctor_done"
    /\ apc' = [apc EXCEPT !["c"] = "idle"]
    /\ UNCHANGED <<openable, ports, connection, linkPort, held, portIndex, ret,
                   failLog, tx, mailVars, NotAdaptor>>

\* updateSerialConnection(data): line 38 merges data into configData, line 39
\* calls connect()
updateSerialConnection(portList) ==
    /\ apc["c"] = "idle"
    /\ ports' = portList
    /\ apc' = [apc EXCEPT !["c"] = "cn_reset"]
    /\ ret' = [ret EXCEPT !["c"] = "idle"]
    /\ UNCHANGED <<openable, connection, linkPort, held, portIndex, failLog, tx,
                   mailVars, NotAdaptor>>

\* SerialAdaptor.stop(): self.connection = False
AdaptorStop ==
    /\ apc["c"] = "idle"
    /\ apc["w"] = "off"
    /\ connection' = 0
    /\ linkPort' = Sweep(linkPort, 0, held)
    /\ UNCHANGED <<openable, ports, held, apc, portIndex, ret, failLog, tx,
                   mailVars, NotAdaptor>>

\* SerialAdaptor.transmitData(data) called from the commanding context
CallTransmit ==
    /\ apc["c"] = "idle"
    /\ apc["w"] = "off"
    /\ TxBegin("c")
    /\ UNCHANGED <<openable, ports, connection, linkPort, held, portIndex, ret,
                   failLog, mailVars, NotAdaptor>>

\* a port appears or goes while no connect() is under way
PortsChange(openSet) ==
    /\ apc["c"] = "idle"
    /\ apc["w"] = "off"
    /\ openSet # openable
    /\ openable' = openSet
    /\ UNCHANGED <<ports, connection, linkPort, held, apc, portIndex, ret, failLog,
                   tx, mailVars, NotAdaptor>>

AdaptorStep(x) ==
    \/ CnReset(x) \/ CnLoop(x) \/ CnOpen(x) \/ CnStore(x) \/ CnReturn(x)
    \/ TxWrite(x) \/ TxWriteEnd(x) \/ TxReturn(x)

NextSerial ==
    \/ (\E l \in PortLists, o \in SUBSET PortNames : AdaptorNew(l, o))
    \/ CtorReturn
    \/ (\E l \in PortLists : updateSerialConnection(l))
    \/ AdaptorStop
    \/ CallTransmit
    \/ (\E o \in SUBSET PortNames : PortsChange(o))
    \/ AdaptorStep("c")

(***************************************************************************)
(* DataChannelManager.py: AdaptorThread. The drain loop runs in context    *)
(* "w"; producers append to self.data from their own contexts; "c" is the  *)
(* context of DataChannelManager's callers. `self.data += data` is a read  *)
(* of self.data, a concatenation and a store.                              *)
(***************************************************************************)
adaptorVars == <<openable, ports, connection, linkPort, held, portIndex, ret, failLog>>

\* DataChannelManager.__init__, lines 43-44: the adaptor just constructed is
\* wrapped in an AdaptorThread, which is started
ManagerStart ==
    /\ apc["c"] = "ctor_done"
    /\ apc' = [apc EXCEPT !["c"] = "idle", !["w"] = "loop"]
    /\ UNCHANGED <<adaptorVars, tx, mailVars, NotAdaptor>>

\* run, line 16: while not self.stopEvent.isSet()
WLoop ==
    /\ apc["w"] = "loop"
    /\ apc' = [apc EXCEPT !["w"] = IF wstop THEN "exit" ELSE "test"]
    /\ UNCHANGED <<adaptorVars, tx, mailVars, NotAdaptor>>

\* run, line 17: if not self.data == ''
WTest ==
    /\ apc["w"] = "test"
    /\ apc' = [apc EXCEPT !["w"] = IF data # <<>> THEN "load" ELSE "loop"]
    /\ UNCHANGED <<adaptorVars, tx, mailVars, NotAdaptor>>

\* run, line 18: self.adaptor.transmitData(self.data) is called
WLoad ==
    /\ apc["w"] = "load"
    /\ handed' = handed \o data
    /\ earlyLoad' = (earlyLoad \/ \E p \in Producers : ppc[p] # "done")
    /\ TxBegin("w")
    /\ UNCHANGED <<adaptorVars, data, appended, ppc, ptmp, wstop, NotAdaptor>>

\* run, line 19: self.data = ''; the transmitData call is over
WClear ==
    /\ apc["w"] = "clear"
    /\ data' = <<>>
    /\ tx' = NoTx
    /\ apc' = [apc EXCEPT !["w"] = "loop"]
    /\ UNCHANGED <<adaptorVars, handed, appended, ppc, ptmp, wstop, earlyLoad,
                   NotAdaptor>>

\* AdaptorThread.transmitData(data), line 22: self.data is read
PRead(p) ==
    /\ apc["w"] # "off"
    /\ ppc[p] = "idle"
    /\ ptmp' = [ptmp EXCEPT ![p] = data]
    /\ ppc' = [ppc EXCEPT ![p] = "read"]
    /\ UNCHANGED <<adaptorVars, apc, tx, data, handed, appended, wstop, earlyLoad,
                   NotAdaptor>>

\* line 22: self.data = <what was read> + data; line 23: return True
PStore(p) ==
    /\ ppc[p] = "read"
    /\ data' = Append(ptmp[p], p)
    /\ appended' = Append(appended, p)
    /\ ppc' = [ppc EXCEPT ![p] = "done"]
    /\ UNCHANGED <<adaptorVars, apc, tx, handed, ptmp, wstop, earlyLoad, NotAdaptor>>

\* AdaptorThread.stop(), line 29: self.adaptor.stop()
WorkerStop ==
    /\ apc["c"] = "idle"
    /\ apc["w"] # "off"
    /\ connection' = 0
    /\ linkPort' = Sweep(linkPort, 0, held)
    /\ apc' = [apc EXCEPT !["c"] = "stop2"]
    /\ UNCHANGED <<openable, ports, held, portIndex, ret, failLog, tx, mailVars, NotAdaptor>>

\* AdaptorThread.stop(), line 30: self.stopEvent.set(), and stop() returns
WorkerStopReturn ==
    /\ apc["c"] = "stop2"
    /\ wstop' = TRUE
    /\ apc' = [apc EXCEPT !["c"] = "stopped"]
    /\ UNCHANGED <<adaptorVars, tx, data, handed, appended, ppc, ptmp, earlyLoad,
                   NotAdaptor>>

NextWorker ==
    \/ (\E l \in PortLists, o \in SUBSET PortNames : AdaptorNew(l, o))
    \/ ManagerStart
    \/ WLoop \/ WTest \/ WLoad \/ WClear
    \/ (\E p \in Producers : PRead(p) \/ PStore(p))
    \/ (\E l \in PortLists : updateSerialConnection(l))
    \/ WorkerStop \/ WorkerStopReturn
    \/ (\E x \in Contexts : AdaptorStep(x))

(***************************************************************************)
(* SculptureModules.py: SculptureModuleBase and PooferModule, with the     *)
(* DataChannelManager's send. The module's commands and doUpdates run one  *)
(* after the other here. A Pattern object is its state grid: what its      *)
(* getState(row, col) returns.                                             *)
(***************************************************************************)
Rows == 0 .. (GridRows - 1)
Cols == 0 .. (GridCols - 1)
Grids == [Rows -> [Cols -> BOOLEAN]]
PatternIds == 0 .. (MaxPatterns - 1)

\* moduleConfig['patterns'] names the classes found in the Patterns package
AvailablePatternClasses == {"AllPoof"}
PatternTypeIds == AvailablePatternClasses \cup {"NoSuchPattern"}

\* the keys of DataChannelManager.dataChannels, and the id of this module
DataChannels == {"poofers"}
ModuleIds == DataChannels \cup {"nosuchmodule"}
ThisModuleId == "poofers"

ModuleInit ==
    /\ nextPatternInstanceId = 0
    /\ patterns = <<>>
    /\ patternRowSettings = <<>>
    /\ currentOutputState = [row \in Rows |-> [col \in Cols |-> FALSE]]
    /\ sent = <<>>
    /\ smCall = [op |-> "init", arg |-> ThisModuleId, raised |-> FALSE, passed |-> FALSE]

\* self.patterns[patternId].getState(row, col)
getState(patternId, row, col) == patterns[patternId][row][col]

\* a pattern contributing whatever its row selection
ContributesUnmasked(patternId, row, col) == getState(patternId, row, col)

\* doUpdates, line 74: the condition under which state becomes True
Contributes(patternId, row, col) ==
    patternRowSettings[patternId][row] /\ getState(patternId, row, col)

\* doUpdates, lines 72-75: state after the loop over self.patterns
CellState(row, col) == \E patternId \in DOMAIN patterns : Contributes(patternId, row, col)

\* doUpdates, lines 69-76: data, one [[row, col], [state]] per cell, row by row
DataOf(grid) ==
    [k \in 1 .. (GridRows * GridCols) |->
        LET row == (k - 1) \div GridCols
            col == (k - 1) % GridCols
        IN  <<<<row, col>>, <<grid[row][col]>>>>]

\* a send that looks up no channel: the data goes out whatever the moduleId
sendAnyModule(moduleId, d) == sent' = d

\* DataChannelManager.send(moduleId, data): self.dataChannels[moduleId].send(data)
send(moduleId, d) ==
    IF moduleId \in DataChannels THEN sent' = d ELSE UNCHANGED sent

\* SculptureModuleBase.addPattern(patternTypeId): an unknown patternTypeId
\* raises KeyError at line 47, before anything is assigned; the new Pattern
\* starts with some state grid
addPattern(patternTypeId, grid) ==
    /\ IF patternTypeId \in AvailablePatternClasses
       THEN /\ nextPatternInstanceId < MaxPatterns
            /\ patterns' = patterns @@ (nextPatternInstanceId :> grid)
            /\ patternRowSettings' =
                   [q \in DOMAIN patternRowSettings \cup {nextPatternInstanceId} |->
                       IF q = nextPatternInstanceId THEN [row \in Rows |-> TRUE]
                       ELSE patternRowSettings[q]]
            /\ nextPatternInstanceId' = nextPatternInstanceId + 1
       ELSE UNCHANGED <<patterns, patternRowSettings, nextPatternInstanceId>>
    /\ smCall' = [op |-> "addPattern", arg |-> patternTypeId,
                  raised |-> patternTypeId \notin AvailablePatternClasses,
                  passed |-> FALSE]
    /\ UNCHANGED <<currentOutputState, sent, NotModule>>

\* SculptureModuleBase.removePattern(patternInstanceId): line 55 raises
\* KeyError for an unknown id, and unBind() of a known pattern returns or
\* raises; line 56 deletes the pattern
removePattern(patternInstanceId, unBindRaises) ==
    /\ IF patternInstanceId \in DOMAIN patterns /\ ~unBindRaises
       THEN patterns' = [q \in DOMAIN patterns \ {patternInstanceId} |-> patterns[q]]
       ELSE UNCHANGED patterns
    /\ smCall' = [op |-> "removePattern", arg |-> patternInstanceId,
                  raised |-> (patternInstanceId \notin DOMAIN patterns \/ unBindRaises),
                  passed |-> FALSE]
    /\ UNCHANGED <<nextPatternInstanceId, patternRowSettings, currentOutputState, sent,
                   NotModule>>

\* SculptureModuleBase.changeInputBinding(patternInstanceId, ...): line 60
\* raises KeyError for an unknown id, and hands the call to a known pattern,
\* which returns or raises
changeInputBinding(patternInstanceId, patternRaises) ==
    /\ smCall' = [op |-> "changeInputBinding", arg |-> patternInstanceId,
                  raised |-> (patternInstanceId \notin DOMAIN patterns \/ patternRaises),
                  passed |-> FALSE]
    /\ UNCHANGED <<nextPatternInstanceId, patterns, patternRowSettings,
                   currentOutputState, sent, NotModule>>

\* PooferModule.doUpdates(), called by a pattern through its update trigger
doUpdates ==
    LET out == [row \in Rows |-> [col \in Cols |-> CellState(row, col)]]
    IN  /\ nextPatternInstanceId > 0
        /\ currentOutputState' = out
        /\ send(ThisModuleId, DataOf(out))
        /\ smCall' = [op |-> "doUpdates", arg |-> ThisModuleId,
                      raised |-> ThisModuleId \notin DataChannels,
                      passed |-> ThisModuleId \in DataChannels]
        /\ UNCHANGED <<nextPatternInstanceId, patterns, patternRowSettings, NotModule>>

\* PooferModule.toggleRowSelection(moduleId, patternInstanceId, row), line 82:
\* self.patterns[patternInstanceId] raises KeyError for an unknown id; for a
\* known one the statement subscripts the Pattern object itself with 'rows',
\* which raises when the object has no item access and otherwise inverts an
\* item held by the Pattern. Neither outcome writes self.patternRowSettings.
toggleRowSelection(patternInstanceId, row, subscriptRaises) ==
    /\ smCall' = [op |-> "toggleRowSelection", arg |-> <<patternInstanceId, row>>,
                  raised |-> (patternInstanceId \notin DOMAIN patterns \/ subscriptRaises),
                  passed |-> FALSE]
    /\ UNCHANGED <<nextPatternInstanceId, patterns, patternRowSettings,
                   currentOutputState, sent, NotModule>>

\* DataChannelManager.send(moduleId, data) called with some moduleId and the
\* data of the current output
CallSend(moduleId) ==
    /\ send(moduleId, DataOf(currentOutputState))
    /\ smCall' = [op |-> "send", arg |-> moduleId,
                  raised |-> moduleId \notin DataChannels,
                  passed |-> moduleId \in DataChannels]
    /\ UNCHANGED <<nextPatternInstanceId, patterns, patternRowSettings,
                   currentOutputState, NotModule>>

\* an active Pattern recomputes its state grid
PatternRecompute(patternId, grid) ==
    /\ patternId \in DOMAIN patterns
    /\ patterns[patternId] # grid
    /\ patterns' = [patterns EXCEPT ![patternId] = grid]
    /\ smCall' = [op |-> "recompute", arg |-> patternId, raised |-> FALSE, passed |-> FALSE]
    /\ UNCHANGED <<nextPatternInstanceId, patternRowSettings, currentOutputState, sent,
                   NotModule>>

\* the controller writes an entry of a pattern's row-selection mask
RowMaskSet(patternId, row, selected) ==
    /\ patternId \in DOMAIN patterns
    /\ patternRowSettings[patternId][row] # selected
    /\ patternRowSettings' = [patternRowSettings EXCEPT ![patternId][row] = selected]
    /\ smCall' = [op |-> "rowmask", arg |-> patternId, raised |-> FALSE, passed |-> FALSE]
    /\ UNCHANGED <<nextPatternInstanceId, patterns, currentOutputState, sent, NotModule>>

NextModule ==
    \/ (\E t \in PatternTypeIds, g \in Grids : addPattern(t, g))
    \/ (\E q \in PatternIds, r \in BOOLEAN : removePattern(q, r))
    \/ (\E q \in PatternIds, r \in BOOLEAN : changeInputBinding(q, r))
    \/ doUpdates
    \/ (\E q \in PatternIds, row \in Rows, r \in BOOLEAN : toggleRowSelection(q, row, r))
    \/ (\E m \in ModuleIds : CallSend(m))
    \/ (\E q \in PatternIds, g \in Grids : PatternRecompute(q, g))
    \/ (\E q \in PatternIds, row \in Rows, b \in BOOLEAN : RowMaskSet(q, row, b))

(***************************************************************************)
(* SculptureModules.py, statement by statement: addPattern and             *)
(* removePattern run in the controller's context while doUpdates runs in   *)
(* the context of a pattern's Timer thread. No lock is taken by either.    *)
(* Statements that touch only locals, or only the Pattern object, are      *)
(* taken together with the next statement that touches the module.         *)
(***************************************************************************)
\* no doUpdates under way; error is how the last one ended
NoUpdate == [pc |-> "idle", row |-> 0, col |-> 0, state |-> FALSE, data |-> <<>>,
             used |-> 0, pos |-> 0, patternId |-> 0, error |-> "none"]

\* no controller call under way
NoCtl == [pc |-> "idle", newInstanceId |-> 0, arg |-> 0]

ModuleRaceInit ==
    /\ du = NoUpdate
    /\ ctl = NoCtl

\* a pattern whose update trigger is bound (line 49) and which addPattern has
\* returned: its Timer thread calls doUpdates
TriggerBound == \E q \in DOMAIN patterns : q < nextPatternInstanceId

\* doUpdates is called; line 69: data = []; lines 70-71: the first cell
D69 ==
    /\ du.pc = "idle"
    /\ TriggerBound
    /\ du' = [NoUpdate EXCEPT !.pc = "iter"]
    /\ UNCHANGED <<ctl, smVars, NotModuleRace>>

\* line 72: state = False; line 73: the iterator over self.patterns is
\* created and notes the number of entries of the dict
D73iter ==
    /\ du.pc = "iter"
    /\ du' = [du EXCEPT !.pc = "next", !.state = FALSE,
                        !.used = Cardinality(DOMAIN patterns), !.pos = 0]
    /\ UNCHANGED <<ctl, smVars, NotModuleRace>>

\* the keys of self.patterns the iterator has not passed: a dict of small
\* ints keeps key k in slot k, and the iterator walks the slots upwards
KeysAhead == {q \in DOMAIN patterns : q >= du.pos}

\* line 73: the iterator's next(): RuntimeError when the dict has changed
\* size since the iterator was created, else the next key, else the loop ends
D73next ==
    /\ du.pc = "next"
    /\ IF Cardinality(DOMAIN patterns) # du.used
       THEN du' = [du EXCEPT !.pc = "idle", !.error = "RuntimeError"]
       ELSE IF KeysAhead # {}
       THEN LET q == CHOOSE k \in KeysAhead : \A j \in KeysAhead : k <= j
            IN  du' = [du EXCEPT !.pc = "mask", !.patternId = q, !.pos = q + 1]
       ELSE du' = [du EXCEPT !.pc = "store"]
    /\ UNCHANGED <<ctl, smVars, NotModuleRace>>

\* line 74, left operand: self.patternRowSettings[patternId][row]
D74mask ==
    /\ du.pc = "mask"
    /\ IF du.patternId \notin DOMAIN patternRowSettings
       THEN du' = [du EXCEPT !.pc = "idle", !.error = "KeyError"]
       ELSE IF patternRowSettings[du.patternId][du.row]
       THEN du' = [du EXCEPT !.pc = "getState"]
       ELSE du' = [du EXCEPT !.pc = "next"]
    /\ UNCHANGED <<ctl, smVars, NotModuleRace>>

\* line 74, right operand, and line 75:
\* self.patterns[patternId].getState(row, col), state = True
D74getState ==
    /\ du.pc = "getState"
    /\ IF du.patternId \notin DOMAIN patterns
       THEN du' = [du EXCEPT !.pc = "idle", !.error = "KeyError"]
       ELSE du' = [du EXCEPT !.pc = "next",
                            !.state = (@ \/ getState(du.patternId, du.row, du.col))]
    /\ UNCHANGED <<ctl, smVars, NotModuleRace>>

\* lines 76-77: data.append([[row, col], [state]]),
\* self.currentOutputState[row][col] = state; lines 70-71: the next cell
D77 ==
    /\ du.pc = "store"
    /\ currentOutputState' = [currentOutputState EXCEPT ![du.row][du.col] = du.state]
    /\ LET data2 == Append(du.data, <<<<du.row, du.col>>, <<du.state>>>>)
       IN  du' = IF du.col + 1 < GridCols
                 THEN [du EXCEPT !.pc = "iter", !.data = data2, !.col = @ + 1]
                 ELSE IF du.row + 1 < GridRows
                 THEN [du EXCEPT !.pc = "iter", !.data = data2, !.col = 0, !.row = @ + 1]
                 ELSE [du EXCEPT !.pc = "send", !.data = data2]
    /\ UNCHANGED <<nextPatternInstanceId, patterns, patternRowSettings, sent, smCall>>
    /\ UNCHANGED <<ctl, NotModuleRace>>

\* line 78: self.dataChannelManager.send(self.moduleConfig['id'], data), and
\* doUpdates returns
D78 ==
    /\ du.pc = "send"
    /\ send(ThisModuleId, du.data)
    /\ du' = [NoUpdate EXCEPT !.data = du.data]
    /\ smCall' = [op |-> "doUpdates", arg |-> ThisModuleId,
                  raised |-> ThisModuleId \notin DataChannels,
                  passed |-> ThisModuleId \in DataChannels]
    /\ UNCHANGED <<nextPatternInstanceId, patterns, patternRowSettings, currentOutputState>>
    /\ UNCHANGED <<ctl, NotModuleRace>>

\* addPattern(patternTypeId) is called; line 46:
\* newInstanceId = self.nextPatternInstanceId
A46(patternTypeId) ==
    /\ ctl.pc = "idle"
    /\ nextPatternInstanceId < MaxPatterns
    /\ ctl' = [pc |-> "a47", newInstanceId |-> nextPatternInstanceId, arg |-> patternTypeId]
    /\ UNCHANGED <<du, smVars, NotModuleRace>>

\* line 47: self.patterns[newInstanceId] = the new Pattern, or KeyError for
\* an unknown patternTypeId
A47(grid) ==
    /\ ctl.pc = "a47"
    /\ IF ctl.arg \in AvailablePatternClasses
       THEN /\ patterns' = [q \in DOMAIN patterns \cup {ctl.newInstanceId} |->
                               IF q = ctl.newInstanceId THEN grid ELSE patterns[q]]
            /\ ctl' = [ctl EXCEPT !.pc = "a48"]
            /\ UNCHANGED smCall
       ELSE /\ ctl' = NoCtl
            /\ smCall' = [op |-> "addPattern", arg |-> ctl.arg, raised |-> TRUE,
                          passed |-> FALSE]
            /\ UNCHANGED patterns
    /\ UNCHANGED <<nextPatternInstanceId, patternRowSettings, currentOutputState, sent>>
    /\ UNCHANGED <<du, NotModuleRace>>

\* line 48: self.patternRowSettings[newInstanceId] = [True, ...]
A48 ==
    /\ ctl.pc = "a48"
    /\ patternRowSettings' =
           [q \in DOMAIN patternRowSettings \cup {ctl.newInstanceId} |->
               IF q = ctl.newInstanceId THEN [row \in Rows |-> TRUE]
               ELSE patternRowSettings[q]]
    /\ ctl' = [ctl EXCEPT !.pc = "a51"]
    /\ UNCHANGED <<nextPatternInstanceId, patterns, currentOutputState, sent, smCall>>
    /\ UNCHANGED <<du, NotModuleRace>>

\* lines 49-50 (bindUpdateTrigger, setInstanceId, on the Pattern), line 51:
\* self.nextPatternInstanceId += 1, and addPattern returns
A51 ==
    /\ ctl.pc = "a51"
    /\ nextPatternInstanceId' = nextPatternInstanceId + 1
    /\ ctl' = NoCtl
    /\ smCall' = [op |-> "addPattern", arg |-> ctl.arg, raised |-> FALSE, passed |-> FALSE]
    /\ UNCHANGED <<patterns, patternRowSettings, currentOutputState, sent>>
    /\ UNCHANGED <<du, NotModuleRace>>

\* removePattern(patternInstanceId) is called; line 55:
\* self.patterns[patternInstanceId].unBind(), KeyError for an unknown id
R55(patternInstanceId, unBindRaises) ==
    /\ ctl.pc = "idle"
    /\ IF patternInstanceId \in DOMAIN patterns /\ ~unBindRaises
       THEN /\ ctl' = [pc |-> "r56", newInstanceId |-> 0, arg |-> patternInstanceId]
            /\ UNCHANGED smCall
       ELSE /\ ctl' = NoCtl
            /\ smCall' = [op |-> "removePattern", arg |-> patternInstanceId,
                          raised |-> TRUE, passed |-> FALSE]
    /\ UNCHANGED <<nextPatternInstanceId, patterns, patternRowSettings,
                   currentOutputState, sent>>
    /\ UNCHANGED <<du, NotModuleRace>>

\* line 56: del self.patterns[patternInstanceId], and removePattern returns
R56 ==
    /\ ctl.pc = "r56"
    /\ patterns' = [q \in DOMAIN patterns \ {ctl.arg} |-> patterns[q]]
    /\ ctl' = NoCtl
    /\ smCall' = [op |-> "removePattern", arg |-> ctl.arg, raised |-> FALSE,
                  passed |-> FALSE]
    /\ UNCHANGED <<nextPatternInstanceId, patternRowSettings, currentOutputState, sent>>
    /\ UNCHANGED <<du, NotModuleRace>>

UpdateStep == D69 \/ D73iter \/ D73next \/ D74mask \/ D74getState \/ D77 \/ D78

ControllerStep ==
    \/ (\E t \in PatternTypeIds : A46(t))
    \/ (\E g \in Grids : A47(g))
    \/ A48 \/ A51
    \/ (\E q \in PatternIds, r \in BOOLEAN : R55(q, r))
    \/ R56

NextModuleRace == UpdateStep \/ ControllerStep

Init == IMInit /\ TimerInit /\ AdaptorInit /\ ModuleInit /\ RaceInit /\ ModuleRaceInit

IMCreate == \E c \in BOOLEAN, p \in BOOLEAN : createNewInput(c, p)
IMRegister == \E u \in Users, i \in InstanceIds, s \in SubIds : registerUsage(u, i, s)
IMUnRegister == \E u \in Users, i \in InstanceIds, s \in SubIds : unRegisterUsage(u, i, s)

NextIM == IMCreate \/ IMRegister \/ IMUnRegister

SpecIM == Init /\ [][NextIM]_vars

SpecTimer == Init /\ [][NextTimer]_vars

SpecSerial == Init /\ [][NextSerial]_vars

SpecWorker == Init /\ [][NextWorker]_vars

SpecModule == Init /\ [][NextModule]_vars

SpecIMRace == Init /\ [][NextIMRace]_vars

SpecModuleRace == Init /\ [][NextModuleRace]_vars

(***************************************************************************)
(* Claims about the InputManager (specification SpecIM).                   *)
(***************************************************************************)
Used(i) == i \in DOMAIN inputInstanceUses /\ Len(inputInstanceUses[i]) > 0
Persistent(i) == i \in DOMAIN inputObjs /\ inputObjs[i].persistent

\* number of usage records [c, r] of instance i in the table `uses`
CountRec(uses, c, i, r) ==
    IF i \in DOMAIN uses
    THEN Cardinality({k \in 1 .. Len(uses[i]) : uses[i][k] = <<c, r>>})
    ELSE 0

\* C1: after every completed (not raising) registerUsage or unRegisterUsage
\* call, an instanceId is present in inputInstances if and only if its Input
\* is persistent or its list of usage records is non-empty. Stated for the
\* Inputs that were constructed and have had a usage registered, so that an
\* Input between its createNewInput and its first registerUsage is not
\* counted against the claim.
C1_RegistryIffUsedOrPersistent ==
    (imCall.op \in {"register", "unregister"} /\ ~imCall.raised) =>
        \A i \in DOMAIN inputObjs \cap DOMAIN inputInstanceUses :
            (i \in inputInstances) <=> (Persistent(i) \/ Used(i))

\* C10: usage records are a multiset. A completed unRegisterUsage(c, i, r)
\* with an instance and a role supplied, on an instance holding k >= 1
\* records [c, r], leaves k-1 of them, and the Input stays in the registry
\* while k >= 2.
C10_MultisetUnregister ==
    [][ LET c == imCall'.userId
            i == imCall'.inputInstanceId
            r == imCall'.userSubId
            k == CountRec(inputInstanceUses, c, i, r)
        IN  (/\ imCall'.op = "unregister"
             /\ ~imCall'.raised
             /\ ~Not(i)
             /\ ~Not(r)
             /\ k >= 1)
            => /\ CountRec(inputInstanceUses', c, i, r) = k - 1
               /\ (k >= 2 /\ i \in inputInstances) => i \in inputInstances'
      ]_vars

\* C11: unRegisterUsage(c, i, r) called with an instance id supplied, the
\* first id allocated (0) included, removes usage records of instance i only:
\* the records and the registry presence of every other instance are
\* unchanged by the completed call.
C11_OtherInstancesUntouched ==
    [][ (/\ imCall'.op = "unregister"
         /\ ~imCall'.raised
         /\ imCall'.inputInstanceId \in InstanceIds)
        => \A j \in InstanceIds \ {imCall'.inputInstanceId} :
               /\ UsesOf(inputInstanceUses', j) = UsesOf(inputInstanceUses, j)
               /\ (j \in inputInstances') <=> (j \in inputInstances)
      ]_vars

\* consumer c holds the one usage record of the registered, non-persistent
\* Input i
SoleUser(c, i) ==
    /\ i \in inputInstances
    /\ ~inputObjs[i].persistent
    /\ Len(UsesOf(inputInstanceUses, i)) = 1
    /\ UsesOf(inputInstanceUses, i)[1][1] = c

\* C12: when the consumer holding the sole usage record of a non-persistent
\* Input releases its inputs (unRegisterUsage for that consumer, as unBind
\* does on removePattern), the Input is stopped and removed from
\* inputInstances within that call, and getInputObj for it raises from then
\* on instead of returning the stale object. Stated for a usage table whose
\* keys are all Inputs that were constructed.
C12_SoleUsageReleased ==
    [][ /\ (/\ imCall'.op = "unregister"
            /\ Not(imCall'.inputInstanceId)
            /\ Not(imCall'.userSubId)
            /\ DOMAIN inputInstanceUses \subseteq DOMAIN inputObjs)
           => \A i \in InstanceIds :
                  SoleUser(imCall'.userId, i)
                      => (inputObjs'[i].stopped /\ getInputObj(i)' = KeyError)
        /\ \A i \in DOMAIN inputObjs :
               inputObjs[i].stopped => getInputObj(i)' = KeyError
      ]_vars

\* C23: registerUsage(c, i, r) with an i that is not in inputInstances (never
\* created, or already deleted) raises and leaves inputInstanceUses exactly
\* as it was: no record for the missing instance is added.
C23_RegisterMissingInstance ==
    [][ (/\ imCall'.op = "register"
         /\ imCall'.inputInstanceId \notin inputInstances)
        => (imCall'.raised /\ UNCHANGED inputInstanceUses)
      ]_vars

\* consumer c has a usage record on some instance of the table
HasRecord(uses, c) ==
    \E i \in DOMAIN uses : \E k \in 1 .. Len(uses[i]) : uses[i][k][1] = c

\* C24: unRegisterUsage(c) with the instance id (and the role) omitted
\* completes without raising in every state, also after an earlier
\* unRegisterUsage has deleted some Input, and leaves no usage record of c on
\* any instance. Stated for a usage table whose keys are all Inputs that
\* were constructed.
C24_BulkReleaseCompletes ==
    [][ (/\ imCall'.op = "unregister"
         /\ Not(imCall'.inputInstanceId)
         /\ Not(imCall'.userSubId)
         /\ DOMAIN inputInstanceUses \subseteq DOMAIN inputObjs)
        => (~imCall'.raised /\ ~HasRecord(inputInstanceUses', imCall'.userId))
      ]_vars

(***************************************************************************)
(* Claims about concurrent InputManager calls (specification SpecIMRace).  *)
(***************************************************************************)
\* C17: when a registerUsage(c2, i) and an unRegisterUsage(c1, i) that
\* removed a record of another consumer of the non-persistent Input i have
\* both finished, in whatever interleaving, and registerUsage returned the
\* Input, then the new record exists and Input i is still in the registry:
\* no usage record points at a deleted Input.
C17_RegisterUnregisterRace ==
    \A x, y \in IMContexts :
        (/\ x # y
         /\ ipc[x] = "idle" /\ icall[x].op = "register" /\ iresult[x] = "ok"
         /\ ipc[y] = "idle" /\ icall[y].op = "unregister" /\ iresult[y] = "ok"
         /\ icall[y].removed >= 1
         /\ icall[x].inputInstanceId = icall[y].inputInstanceId
         /\ ~inputObjs[icall[x].inputInstanceId].persistent)
        => /\ icall[x].inputInstanceId \in inputInstances
           /\ CountRec(inputInstanceUses, icall[x].userId, icall[x].inputInstanceId, False) >= 1

\* C18: every createNewInput call returns an id that no other createNewInput
\* call has returned, also when the calls interleave, and the new Input is
\* stored under that id.
C18_UniqueInstanceIds ==
    /\ \A j, k \in 1 .. Len(returned) : j # k => returned[j] # returned[k]
    /\ \A k \in 1 .. Len(returned) : returned[k] \in DOMAIN inputObjs

(***************************************************************************)
(* Claims about the Timer (specification SpecTimer).                       *)
(***************************************************************************)
\* C2: once Timer.stop() has returned, the callback is never invoked again,
\* wherever in the loop of run() the timer thread was when stop() was called
\* (line 19 is the loop's call of doFunction).
C2_NoCallAfterStop == 19 \notin calledAfterStop

\* C5: refresh() called at time t on an armed timer causes no callback
\* invocation itself: the next invocation is no earlier than t + interval.
C5_RefreshNoEarlyFire == ~earlyFire

\* C14: a callback that raises during a firing of a repeating Timer does not
\* end the timer: the exception stays in that firing, and the thread goes on
\* to reschedule and fire again until stop() is called. The thread of a
\* repeating Timer is never ended by an exception of the callback in a
\* firing of the loop of run().
C14_CallbackFailureIsolated == ~(repeating /\ tpc = "dead")

\* C15: the first invocation of the callback of a Timer constructed with a
\* given interval takes place only when that interval has elapsed since the
\* construction, for repeating and non-repeating timers alike.
C15_NoFiringAtStart == ~firstEarly

\* C22: a non-repeating Timer invokes its callback at most once between its
\* construction and stop(), however long stop() is delayed and with or
\* without a refresh() in between.
C22_OneShotFiresOnce == (tpc # "none" /\ ~repeating) => calls <= 1

\* C20: a Timer never re-enters its callback: at no time are two invocations
\* in progress, in any interleaving of the thread with refresh(),
\* changeInterval() and stop().
C20_NoReentry == inCallback <= 1

\* an invocation is in progress while refresh() is under way in the calling
\* context and the timer the thread waited on has been stopped
C20_Witness ==
    /\ inCallback = 1
    /\ cpc \in {"refresh3", "refresh4"}
    /\ calls >= 1

(***************************************************************************)
(* Claims about SerialAdaptor used from one context (specification         *)
(* SpecSerial).                                                            *)
(***************************************************************************)
\* the write attempts of the transmitData call that reached a link
RealWrites == SelectSeq(tx.writes, LAMBDA w : w # "nolink")

\* C6: when transmitData fails to write, reconnects, and the retried write
\* fails too, the call reports a transmit failure and returns failure, not
\* success.
C6_FailureReturned ==
    (tx.returned # "none" /\ tx.writes = <<"fail", "fail">>)
        => (tx.logged /\ tx.returned = "False")

\* C7: transmitData called while disconnected connects first and writes, and
\* if that write fails performs exactly one further connect() and one retried
\* write; called while connected it makes at most two write attempts and at
\* most one connect().
C7_ConnectFirstThenOneRetry ==
    tx.returned # "none" =>
        IF tx.startConn
        THEN Len(RealWrites) <= 2 /\ tx.connects <= 1
        ELSE (RealWrites # <<>> /\ RealWrites[1] = "fail")
                 => (tx.connects = 2 /\ Len(RealWrites) = 2)

\* the indices of the first port of the list that opens
FirstOpenable ==
    {k \in 1 .. Len(ports) :
        ports[k] \in openable /\ \A j \in 1 .. (k - 1) : ports[j] \notin openable}

\* C8: when connect() returns, the connection is the link on the first port
\* of configData['ports'] that opens, one failure was logged for each port
\* before it and none for a later one; if no port opens, a failure was logged
\* for each port and the adaptor is disconnected, with no link open.
C8_ConnectFirstOpenable ==
    apc["c"] = "cn_done" =>
        IF FirstOpenable = {}
        THEN connection = 0 /\ OpenLinks = {} /\ failLog = ports
        ELSE LET k == CHOOSE k \in FirstOpenable : TRUE
             IN  /\ connection # 0
                 /\ linkPort[connection] = ports[k]
                 /\ OpenLinks = {connection}
                 /\ failLog = SubSeq(ports, 1, k - 1)

\* ports [A, B], A fails to open and B opens: connect() has returned with a
\* link on B and one failure logged, for A
C8_Witness ==
    /\ apc["c"] = "cn_done"
    /\ Len(ports) = 2
    /\ ports[1] \notin openable
    /\ ports[2] \in openable
    /\ connection # 0
    /\ linkPort[connection] = ports[2]
    /\ failLog = <<ports[1]>>

(***************************************************************************)
(* Claims about the AdaptorThread (specification SpecWorker).              *)
(***************************************************************************)
Occurrences(seq, x) == Cardinality({k \in 1 .. Len(seq) : seq[k] = x})

\* every producer has returned, the mailbox is empty and the running drain
\* loop is not inside an iteration
Drained ==
    /\ \A p \in Producers : ppc[p] = "done"
    /\ data = <<>>
    /\ apc["w"] \in {"loop", "test"}
    /\ ~wstop
    /\ apc["c"] # "stop2"

\* C3: with producers appending concurrently with the drain loop, every
\* payload appended is passed to Adaptor.transmitData exactly once while the
\* worker is running: none is lost and none is sent twice.
C3_EachPayloadHandedOnce ==
    Drained => \A p \in Producers : Occurrences(handed, p) = 1

\* C4: for payloads appended before any drain, the running worker hands the
\* adaptor exactly their concatenation in append order, also when the appends
\* come from concurrent producers.
C4_HandedInAppendOrder ==
    (Drained /\ ~earlyLoad) => handed = appended

\* C9: an adaptor never has more than one open link, also while
\* updateSerialConnection() runs in the caller's context and the drain
\* context is inside transmitData().
C9_AtMostOneOpenLink == Cardinality(OpenLinks) <= 1
\* C16: once AdaptorThread.stop() has returned, the adaptor holds no live
\* connection, in that state and in every later one, also while the drain
\* loop finishes the iteration it was in.
C16_ClosedAfterStop == apc["c"] = "stopped" => connection = 0

(***************************************************************************)
(* Claim about doUpdates running beside addPattern and removePattern       *)
(* (specification SpecModuleRace).                                         *)
(***************************************************************************)
\* C25: in every interleaving of addPattern or removePattern with doUpdates
\* on the same module, doUpdates goes on without error: every pattern id it
\* reads from patterns has a mask in patternRowSettings and is still in
\* patterns when it is read.
C25_UpdatesSurviveAddRemove == du.error = "none"

C21_ToggleInvertsMaskEntry ==
    [][ (/\ smCall'.op = "toggleRowSelection"
         /\ smCall'.arg[1] \in DOMAIN patterns)
        => patternRowSettings' =
               [patternRowSettings EXCEPT ![smCall'.arg[1]][smCall'.arg[2]] = ~@]
      ]_vars

\* cell (row, col) is on in the current output, or in the data last sent,
\* after the step
CellOnAfter(row, col) ==
    \/ currentOutputState'[row][col]
    \/ (sent' # <<>> /\ sent'[row * GridCols + col + 1][2][1])

\* C26: after removePattern(p) has returned, no cell of currentOutputState,
\* nor of the data last sent, is true solely because of the removed pattern
\* p (p contributed to it and no remaining pattern does), and
\* patternRowSettings has no entry for p.
C26_RemovedPatternLeavesNoTrace ==
    [][ (smCall'.op = "removePattern" /\ ~smCall'.raised)
        => /\ smCall'.arg \notin DOMAIN patternRowSettings'
           /\ \A row \in Rows, col \in Cols :
                  ~(/\ CellOnAfter(row, col)
                    /\ Contributes(smCall'.arg, row, col)
                    /\ ~\E q \in DOMAIN patterns' :
                           patternRowSettings'[q][row] /\ patterns'[q][row][col])
      ]_vars

\* the cells alone: the part of C26 that does not mention patternRowSettings
RemovedPatternLeavesNoCell ==
    [][ (smCall'.op = "removePattern" /\ ~smCall'.raised)
        => \A row \in Rows, col \in Cols :
               ~(/\ CellOnAfter(row, col)
                 /\ Contributes(smCall'.arg, row, col)
                 /\ ~\E q \in DOMAIN patterns' :
                        patternRowSettings'[q][row] /\ patterns'[q][row][col])
      ]_vars

\* a command naming an identifier that does not exist when it is called
UnknownIdentifier(c) ==
    \/ c.op = "addPattern" /\ c.arg \notin AvailablePatternClasses
    \/ c.op \in {"removePattern", "changeInputBinding"} /\ c.arg \notin DOMAIN patterns
    \/ c.op = "send" /\ c.arg \notin DataChannels

\* C19: addPattern with an unknown pattern kind, removePattern and
\* changeInputBinding with an unknown patternInstanceId, and
\* DataChannelManager.send with an unknown moduleId each raise to the caller,
\* leave patterns, patternRowSettings and nextPatternInstanceId as they were,
\* and hand no data to any channel.
C19_UnknownIdentifierRejected ==
    [][UnknownIdentifier(smCall') =>
          /\ smCall'.raised
          /\ ~smCall'.passed
          /\ UNCHANGED <<patterns, patternRowSettings, nextPatternInstanceId, sent,
                         currentOutputState>>]_vars

\* send("nosuchmodule", data) has raised while a pattern is active, the output
\* composed by the last doUpdates has a cell on, and the data last sent is
\* still that of the doUpdates
C19_Witness ==
    /\ smCall.op = "send" /\ smCall.arg \notin DataChannels /\ smCall.raised
    /\ DOMAIN patterns # {}
    /\ nextPatternInstanceId = MaxPatterns
    /\ currentOutputState[0][0]
    /\ sent = DataOf(currentOutputState)
====
